---- MODULE Spec2Model ----
(***************************************************************************)
(* server.js: an Express server that proxies CRUD requests to MongoDB      *)
(* through two process-wide caches, connections (database name -> mongoose *)
(* connection) and models (`${dbName}-${collectionName}` -> mongoose       *)
(* model).  Node runs one synchronous segment of code at a time; a segment *)
(* ends at an await.  Every action below is one such segment of one        *)
(* request (or of startServer), so the interleavings of the actions are    *)
(* the interleavings the event loop can produce.                           *)
(***************************************************************************)
EXTENDS Integers, Sequences, FiniteSets, TLC

\* ------------------------------------------------------------------ bounds
MaxTasks == 2          \* requests of one run of the cache specification
MaxHttpTasks == 2      \* requests of one run of the full specification

\* --------------------------------------------------------------- constants
undefined == 0         \* a missing property / an unset local
ObjectPrototype == -1  \* what `{}` yields for an inherited name such as "constructor"

DefaultDb == "BigBoxStore"
DefaultColl == "GroceryInventory"

\* Database and collection names requests are drawn from.  "constructor" is
\* a property every object literal inherits; "Test-a"/"b" and "Test"/"a-b"
\* are two different pairs of names that contain the key separator.
DbNames == {DefaultDb, "Test", "Test-a", "constructor"}
CollNames == {DefaultColl, "Items", "b", "a-b"}
InheritedNames == {"constructor"}

\* The (database, collection) pairs of the requests.
CacheTargets ==
    { <<DefaultDb, DefaultColl>>, <<"Test", "Items">>, <<"Test", "a-b">>,
      <<"Test-a", "b">>, <<"constructor", "Items">> }

Startup == 0
Requests == 1..MaxTasks
HttpRequests == 1..MaxHttpTasks
Procs == {Startup} \cup Requests \cup HttpRequests

VARIABLES
    connections,   \* const connections = {}: own properties, dbName -> handle
    models,        \* const models = {}: own properties, modelKey -> accessor
    handleDb,      \* the connections mongoose has opened: handle h is for database handleDb[h]
    accs,          \* the models mongoose has compiled: accessor a = [conn, coll]
    store,         \* the MongoDB collections: <<db, coll>> -> set of documents
    nextId,        \* the next _id the driver generates
    task,          \* startServer (0) and the requests: arguments, locals, position
    listening,     \* app.listen has been called
    exitCode       \* <<>> while the process runs, <<1>> after process.exit(1)

vars == <<connections, models, handleDb, accs, store, nextId, task, listening, exitCode>>

\* ----------------------------------------------------------------- helpers

\* `${dbName}-${collectionName}`
modelKey(dbName, collectionName) == dbName \o "-" \o collectionName

ModelKeys == { modelKey(d, c) : d \in DbNames, c \in CollNames }

\* obj[name] for an object literal: the own property if there is one, else
\* whatever Object.prototype has under that name, else undefined.
lookup(obj, name) ==
    IF obj[name] # undefined THEN obj[name]
    ELSE IF name \in InheritedNames THEN ObjectPrototype
    ELSE undefined

Handles == 1..Len(handleDb)
Accessors == 1..Len(accs)

\* The collection an accessor reads and writes.
collectionOf(a) == <<handleDb[accs[a].conn], accs[a].coll>>

NoBody == [document |-> <<>>, documentsKind |-> "absent", documents |-> <<>>, update |-> <<>>]

IdleTask ==
    [ kind |-> "none", db |-> "", coll |-> "", id |-> 0, body |-> NoBody,
      pc |-> "idle", caller |-> "", conn |-> undefined, model |-> undefined,
      status |-> 0, sent |-> 0, error |-> "", out |-> <<>>,
      peers |-> {}, modelPeers |-> {}, afterFailure |-> FALSE ]

\* ------------------------------------------------------------ grocerySchema

\* JSON values are tagged: <<"string", s>>, <<"number", n>>, <<"boolean", b>>.
\* A string is the sequence of its words and of the runs of white space
\* between and around them (" "): "apple" is <<"apple">>, " pear" is
\* <<" ", "pear">>, "" is <<>>.
Str(s) == <<"string", <<s>>>>
Num(n) == <<"number", n>>

NoEnum == {}
NoMin == <<>>

grocerySchema ==
    [ item |-> [type |-> "String", required |-> TRUE, trim |-> TRUE,
                enum |-> NoEnum, min |-> NoMin],
      food_group |-> [type |-> "String", required |-> TRUE, trim |-> FALSE,
                      enum |-> {<<"fruits">>, <<"vegetables">>, <<"proteins">>,
                                <<"dairy">>, <<"grains">>, <<"nuts">>},
                      min |-> NoMin],
      price_in_usd |-> [type |-> "Number", required |-> TRUE, trim |-> FALSE,
                        enum |-> NoEnum, min |-> NoMin],
      quantity |-> [type |-> "Number", required |-> TRUE, trim |-> FALSE,
                    enum |-> NoEnum, min |-> <<0>>],
      calories_per_100g |-> [type |-> "Number", required |-> FALSE, trim |-> FALSE,
                             enum |-> NoEnum, min |-> NoMin],
      organic |-> [type |-> "Boolean", required |-> FALSE, trim |-> FALSE,
                   enum |-> NoEnum, min |-> NoMin],
      wild_caught |-> [type |-> "Boolean", required |-> FALSE, trim |-> FALSE,
                       enum |-> NoEnum, min |-> NoMin],
      fat_content |-> [type |-> "String", required |-> FALSE, trim |-> FALSE,
                       enum |-> NoEnum, min |-> NoMin],
      gluten_free |-> [type |-> "Boolean", required |-> FALSE, trim |-> FALSE,
                       enum |-> NoEnum, min |-> NoMin],
      free_range |-> [type |-> "Boolean", required |-> FALSE, trim |-> FALSE,
                      enum |-> NoEnum, min |-> NoMin] ]

SchemaPaths == DOMAIN grocerySchema

\* String.prototype.trim, the setter `trim: true` applies.
RECURSIVE trimStart(_)
trimStart(s) == IF s # <<>> /\ Head(s) = " " THEN trimStart(Tail(s)) ELSE s

RECURSIVE trimEnd(_)
trimEnd(s) ==
    IF s # <<>> /\ s[Len(s)] = " " THEN trimEnd(SubSeq(s, 1, Len(s) - 1)) ELSE s

trim(s) == trimEnd(trimStart(s))

\* Whether mongoose can cast a JSON value to a type.  No string of the
\* requests below spells a number or a boolean.
castable(type, v) ==
    CASE type = "String"  -> TRUE
      [] type = "Number"  -> v[1] \in {"number", "boolean"}
      [] type = "Boolean" -> v[1] = "boolean" \/ (v[1] = "number" /\ v[2] \in {0, 1})

castType(type, v) ==
    CASE type = "String"  -> IF v[1] = "string" THEN v ELSE <<"string", <<ToString(v[2])>>>>
      [] type = "Number"  -> IF v[1] = "boolean" THEN <<"number", IF v[2] THEN 1 ELSE 0>> ELSE v
      [] type = "Boolean" -> IF v[1] = "number" THEN <<"boolean", v[2] = 1>> ELSE v

\* The value a path of the schema holds for a JSON value: cast, then trimmed.
castValue(f, v) ==
    LET c == castType(grocerySchema[f].type, v)
    IN  IF grocerySchema[f].trim THEN <<"string", trim(c[2])>> ELSE c

\* The paths of an object the schema knows (strict mode drops the others).
known(obj) == DOMAIN obj \cap SchemaPaths

\* The object as a document of the schema holds it: known paths, cast.
castDoc(obj) ==
    [ f \in { g \in known(obj) : castable(grocerySchema[g].type, obj[g]) } |->
        castValue(f, obj[f]) ]

\* enum and min validators of one path on a cast value.
pathValid(f, v) ==
    /\ grocerySchema[f].enum # NoEnum => v[2] \in grocerySchema[f].enum
    /\ grocerySchema[f].min # NoMin => v[2] >= grocerySchema[f].min[1]

\* doc.validate() of a new document: casts, required paths, enum, min.
validates(obj) ==
    /\ \A f \in known(obj) : castable(grocerySchema[f].type, obj[f])
    /\ \A f \in SchemaPaths :
          grocerySchema[f].required =>
              /\ f \in known(obj)
              /\ grocerySchema[f].type = "String" => castValue(f, obj[f])[2] # <<>>
    /\ \A f \in known(obj) : pathValid(f, castValue(f, obj[f]))

\* runValidators on { $set: update }: casts and validators of the set paths.
updateValidates(obj) ==
    /\ \A f \in known(obj) : castable(grocerySchema[f].type, obj[f])
    /\ \A f \in known(obj) : pathValid(f, castValue(f, obj[f]))

newDocumentUncast(obj, id) == obj @@ ("_id" :> <<"id", id>>) @@ ("__v" :> Num(0))

\* The stored form of a new document: the cast paths plus _id and __v.
newDocument(obj, id) == castDoc(obj) @@ ("_id" :> <<"id", id>>) @@ ("__v" :> Num(0))

setFieldsReplace(doc, obj) ==
    [ f \in {"_id"} \cup known(obj) |->
        IF f \in known(obj) THEN castValue(f, obj[f]) ELSE doc[f] ]

\* The stored document after { $set: update }.
setFields(doc, obj) ==
    [ f \in DOMAIN doc \cup known(obj) |->
        IF f \in known(obj) THEN castValue(f, obj[f]) ELSE doc[f] ]

byId(docs, id) == { x \in docs : x["_id"] = <<"id", id>> }

\* ------------------------------------------------------------ request inputs

Apple == [item |-> Str("apple"), food_group |-> Str("fruits"),
          price_in_usd |-> Num(1), quantity |-> Num(10)]
Milk == [item |-> Str("milk"), food_group |-> Str("dairy"),
         price_in_usd |-> Num(2), quantity |-> Num(4), organic |-> <<"boolean", TRUE>>]
NoFoodGroup == [item |-> Str("apple"), price_in_usd |-> Num(1), quantity |-> Num(10)]
BadEnum == [item |-> Str("cola"), food_group |-> Str("candy"),
            price_in_usd |-> Num(1), quantity |-> Num(10)]
Pear == [item |-> <<"string", <<" ", "pear">>>>, food_group |-> Str("fruits"),
         price_in_usd |-> Num(3), quantity |-> Num(0), color |-> Str("green")]
BadType == [item |-> Str("apple"), food_group |-> Str("fruits"),
            price_in_usd |-> Num(1), quantity |-> Str("lots")]

\* req.body of an insert: `document` (<<>>: absent or falsy), and `documents`
\* (absent, an array, or something that is not an array).
bodyOne(doc) == [NoBody EXCEPT !.document = <<doc>>]
bodyMany(docs) == [NoBody EXCEPT !.documentsKind = "array", !.documents = docs]

InsertBodies ==
    { bodyOne(Apple), bodyOne(Pear), bodyOne(NoFoodGroup), bodyOne(BadEnum), bodyOne(BadType),
      bodyMany(<<Apple, Milk>>), bodyMany(<<Milk, BadEnum>>),
      NoBody, [NoBody EXCEPT !.documentsKind = "other"] }

Updates ==
    { [quantity |-> Num(5)], [food_group |-> Str("candy")],
      [item |-> Str("pear"), price_in_usd |-> Num(3)],
      [item |-> <<"string", <<"kiwi", " ">>>>, color |-> Str("green")] }

\* Document ids of requests: MalformedId is a string that is no ObjectId.
MalformedId == 0
MaxId == 2
RequestIds == {MalformedId} \cup 1..MaxId

HttpTargets == { <<DefaultDb, DefaultColl>>, <<"Test", "Items">> }

\* ------------------------------------------------------------- getConnection

\* getConnection(dbName) up to its await (or to its return, on a hit).
getConnectionCallAlways(t) == [t EXCEPT !.pc = "createConnection"]

getConnectionCall(t) ==
    LET seen == \E q \in Procs : /\ task[q].error = "ConnectionError"
                                 /\ task[q].db = t.db
        t1 == [t EXCEPT !.afterFailure = seen]
    IN  IF lookup(connections, t.db) = undefined
        THEN [t1 EXCEPT !.pc = "createConnection"]
        ELSE [t1 EXCEPT !.pc = "getConnectionReturned",
                        !.conn = lookup(connections, t.db)]

\* getModel(dbName, collectionName) up to its await (or to its return, on a hit).
getModelCall(t) ==
    IF models[modelKey(t.db, t.coll)] # undefined
    THEN [t EXCEPT !.pc = "getModelReturned",
                   !.model = models[modelKey(t.db, t.coll)]]
    ELSE getConnectionCall([t EXCEPT !.caller = "getModel"])

catchSwallows(p, err) ==
    /\ task' = [task EXCEPT ![p] = [@ EXCEPT !.pc = "done", !.error = err]]
    /\ exitCode' = IF p = Startup THEN <<1>> ELSE exitCode

catchNoExit(p, err) ==
    /\ task' = [task EXCEPT ![p] = [@ EXCEPT !.pc = "done", !.error = err,
                                             !.status = IF p = Startup THEN 0 ELSE 500,
                                             !.sent = IF p = Startup THEN @ ELSE @ + 1]]
    /\ exitCode' = exitCode

\* The catch block the rejection of p's awaited promise ends in: startServer
\* exits the process with status 1, a route handler answers 500.
catch(p, err) ==
    /\ task' = [task EXCEPT ![p] = [@ EXCEPT !.pc = "done", !.error = err,
                                             !.status = IF p = Startup THEN 0 ELSE 500,
                                             !.sent = IF p = Startup THEN @ ELSE @ + 1]]
    /\ exitCode' = IF p = Startup THEN <<1>> ELSE exitCode

Running == exitCode = <<>>

\* --------------------------------------------------------------- startServer

startServer ==
    /\ Running
    /\ task[Startup].pc = "boot"
    /\ task' = [task EXCEPT ![Startup] =
                   getConnectionCall([@ EXCEPT !.caller = "startServer"])]
    /\ UNCHANGED <<connections, models, handleDb, accs, store, nextId, listening, exitCode>>

createConnectionResolveUncached(p) ==
    /\ Running
    /\ task[p].pc = "createConnection"
    /\ handleDb' = Append(handleDb, task[p].db)
    /\ task' = [task EXCEPT ![p] =
          [@ EXCEPT !.pc = "getConnectionReturned", !.conn = Len(handleDb) + 1]]
    /\ UNCHANGED <<connections, models, accs, store, nextId, listening, exitCode>>

\* await mongoose.createConnection(DB) resolves: the handle is stored and returned.
createConnectionResolve(p) ==
    /\ Running
    /\ task[p].pc = "createConnection"
    /\ LET h == Len(handleDb) + 1 IN
        /\ handleDb' = Append(handleDb, task[p].db)
        /\ connections' = [connections EXCEPT ![task[p].db] = h]
        /\ task' = [task EXCEPT ![p] =
              [@ EXCEPT !.pc = "getConnectionReturned", !.conn = h,
                        !.peers = { q \in Procs \ {p} :
                                      /\ task[q].pc = "createConnection"
                                      /\ task[q].db = task[p].db }]]
    /\ UNCHANGED <<models, accs, store, nextId, listening, exitCode>>

createConnectionRejectCached(p) ==
    /\ Running
    /\ task[p].pc = "createConnection"
    /\ handleDb' = Append(handleDb, task[p].db)
    /\ connections' = [connections EXCEPT ![task[p].db] = Len(handleDb) + 1]
    /\ catch(p, "ConnectionError")
    /\ UNCHANGED <<models, accs, store, nextId, listening>>

\* The open fails (or building the URI throws): nothing is stored.
createConnectionReject(p) ==
    /\ Running
    /\ task[p].pc = "createConnection"
    /\ catch(p, "ConnectionError")
    /\ UNCHANGED <<connections, models, handleDb, accs, store, nextId, listening>>

\* startServer, after await getConnection('BigBoxStore'): calls getModel.
startServerGotConnection ==
    /\ Running
    /\ task[Startup].pc = "getConnectionReturned"
    /\ task[Startup].caller = "startServer"
    /\ task' = [task EXCEPT ![Startup] = getModelCall(@)]
    /\ UNCHANGED <<connections, models, handleDb, accs, store, nextId, listening, exitCode>>

\* getModel, after await getConnection(dbName):
\* models[modelKey] = connection.model(collectionName, grocerySchema, collectionName).
\* With a collection argument mongoose compiles a new model on every call.
getModelBind(p) ==
    /\ Running
    /\ task[p].pc = "getConnectionReturned"
    /\ task[p].caller = "getModel"
    /\ task[p].conn \in Handles
    /\ LET a == Len(accs) + 1 IN
        /\ accs' = Append(accs, [conn |-> task[p].conn, coll |-> task[p].coll])
        /\ models' = [models EXCEPT ![modelKey(task[p].db, task[p].coll)] = a]
        /\ task' = [task EXCEPT ![p] =
              [@ EXCEPT !.pc = "getModelReturned", !.model = a,
                        !.modelPeers = { q \in Procs \ {p} :
                                           /\ task[q].caller = "getModel"
                                           /\ task[q].pc \in {"createConnection",
                                                               "getConnectionReturned"}
                                           /\ task[q].db = task[p].db
                                           /\ task[q].coll = task[p].coll }]]
    /\ UNCHANGED <<connections, handleDb, store, nextId, listening, exitCode>>

getModelBindThrowsCached(p) ==
    /\ Running
    /\ task[p].pc = "getConnectionReturned"
    /\ task[p].caller = "getModel"
    /\ task[p].conn \notin Handles
    /\ models' = [models EXCEPT ![modelKey(task[p].db, task[p].coll)] = task[p].conn]
    /\ catch(p, "TypeError")
    /\ UNCHANGED <<connections, handleDb, accs, store, nextId, listening>>

\* The value getConnection returned is no connection (Object.prototype's
\* property): connection.model is not a function.
getModelBindThrows(p) ==
    /\ Running
    /\ task[p].pc = "getConnectionReturned"
    /\ task[p].caller = "getModel"
    /\ task[p].conn \notin Handles
    /\ catch(p, "TypeError")
    /\ UNCHANGED <<connections, models, handleDb, accs, store, nextId, listening>>

\* startServer, after await getModel(...): countDocuments resolves, app.listen.
startServerListen ==
    /\ Running
    /\ task[Startup].pc = "getModelReturned"
    /\ task' = [task EXCEPT ![Startup] =
          [@ EXCEPT !.pc = "done",
                    !.out = <<Cardinality(store[collectionOf(task[Startup].model)])>>]]
    /\ listening' = TRUE
    /\ UNCHANGED <<connections, models, handleDb, accs, store, nextId, exitCode>>


\* -------------------------------------------------------------------- routes

\* Requests are numbered in the order they arrive.
CanArrive(p) ==
    /\ Running
    /\ listening
    /\ task[p].pc = "idle"
    /\ \A q \in Requests : q < p => task[q].pc # "idle"

\* GET /find/:database/:collection, up to await getModel.
find(p, d, c) ==
    /\ CanArrive(p)
    /\ task' = [task EXCEPT ![p] = getModelCall([@ EXCEPT !.kind = "find", !.db = d, !.coll = c])]
    /\ UNCHANGED <<connections, models, handleDb, accs, store, nextId, listening, exitCode>>

\* ... after await getModel: Model.find({}).lean() resolves, 200 with the documents.
findRespond(p) ==
    /\ Running
    /\ task[p].pc = "getModelReturned"
    /\ task[p].kind = "find"
    /\ task' = [task EXCEPT ![p] =
          [@ EXCEPT !.pc = "done", !.status = 200, !.sent = @ + 1,
                    !.out = <<store[collectionOf(task[p].model)]>>]]
    /\ UNCHANGED <<connections, models, handleDb, accs, store, nextId, listening, exitCode>>

\* Whether the handler, once it has its Model, sends an operation to MongoDB.
sendsOperation(t) ==
    t.kind = "insert" =>
        \/ t.body.document # <<>> /\ validates(t.body.document[1])
        \/ /\ t.body.document = <<>>
           /\ t.body.documentsKind = "array"
           /\ \A i \in 1..Len(t.body.documents) : validates(t.body.documents[i])

\* POST /insert/:database/:collection, up to await getModel.
insert(p, d, c, body) ==
    /\ CanArrive(p)
    /\ task' = [task EXCEPT ![p] =
          getModelCall([@ EXCEPT !.kind = "insert", !.db = d, !.coll = c, !.body = body])]
    /\ UNCHANGED <<connections, models, handleDb, accs, store, nextId, listening, exitCode>>

\* ... req.body.document is truthy: Model.create(req.body.document), 201.
insertOne(p) ==
    /\ Running
    /\ task[p].pc = "getModelReturned"
    /\ task[p].kind = "insert"
    /\ task[p].body.document # <<>>
    /\ validates(task[p].body.document[1])
    /\ store' = [store EXCEPT ![collectionOf(task[p].model)] =
                    @ \cup {newDocument(task[p].body.document[1], nextId)}]
    /\ nextId' = nextId + 1
    /\ task' = [task EXCEPT ![p] = [@ EXCEPT !.pc = "done", !.status = 201, !.sent = @ + 1,
                                             !.out = <<nextId>>]]
    /\ UNCHANGED <<connections, models, handleDb, accs, listening, exitCode>>

\* ... req.body.documents is an array: Model.insertMany(req.body.documents), 201.
insertMany(p) ==
    /\ Running
    /\ task[p].pc = "getModelReturned"
    /\ task[p].kind = "insert"
    /\ task[p].body.document = <<>>
    /\ task[p].body.documentsKind = "array"
    /\ LET docs == task[p].body.documents IN
        /\ \A i \in 1..Len(docs) : validates(docs[i])
        /\ store' = [store EXCEPT ![collectionOf(task[p].model)] =
                        @ \cup { newDocument(docs[i], nextId + i - 1) : i \in 1..Len(docs) }]
        /\ nextId' = nextId + Len(docs)
        /\ task' = [task EXCEPT ![p] =
              [@ EXCEPT !.pc = "done", !.status = 201, !.sent = @ + 1,
                        !.out = [i \in 1..Len(docs) |-> nextId + i - 1]]]
    /\ UNCHANGED <<connections, models, handleDb, accs, listening, exitCode>>

\* ... a document fails validation: create / insertMany reject before
\* anything is sent, and the catch block answers.
insertInvalid(p) ==
    /\ Running
    /\ task[p].pc = "getModelReturned"
    /\ task[p].kind = "insert"
    /\ task[p].body.document # <<>> \/ task[p].body.documentsKind = "array"
    /\ ~sendsOperation(task[p])
    /\ catch(p, "ValidationError")
    /\ UNCHANGED <<connections, models, handleDb, accs, store, nextId, listening>>

insertBadRequestCreated(p) ==
    /\ Running
    /\ task[p].pc = "getModelReturned"
    /\ task[p].kind = "insert"
    /\ task[p].body.document = <<>>
    /\ task[p].body.documentsKind # "array"
    /\ task' = [task EXCEPT ![p] = [@ EXCEPT !.pc = "done", !.status = 201, !.sent = @ + 1]]
    /\ UNCHANGED <<connections, models, handleDb, accs, store, nextId, listening, exitCode>>

\* ... neither branch: 400.
insertBadRequest(p) ==
    /\ Running
    /\ task[p].pc = "getModelReturned"
    /\ task[p].kind = "insert"
    /\ task[p].body.document = <<>>
    /\ task[p].body.documentsKind # "array"
    /\ task' = [task EXCEPT ![p] = [@ EXCEPT !.pc = "done", !.status = 400, !.sent = @ + 1]]
    /\ UNCHANGED <<connections, models, handleDb, accs, store, nextId, listening, exitCode>>

\* DELETE /delete/:database/:collection/:id, up to await getModel.
delete(p, d, c, id) ==
    /\ CanArrive(p)
    /\ task' = [task EXCEPT ![p] =
          getModelCall([@ EXCEPT !.kind = "delete", !.db = d, !.coll = c, !.id = id])]
    /\ UNCHANGED <<connections, models, handleDb, accs, store, nextId, listening, exitCode>>

deleteRespondAlways200(p) ==
    /\ Running
    /\ task[p].pc = "getModelReturned"
    /\ task[p].kind = "delete"
    /\ task[p].id # MalformedId
    /\ LET k == collectionOf(task[p].model)
           found == byId(store[k], task[p].id)
       IN /\ store' = [store EXCEPT ![k] = @ \ found]
          /\ task' = [task EXCEPT ![p] = [@ EXCEPT !.pc = "done", !.status = 200, !.sent = @ + 1]]
    /\ UNCHANGED <<connections, models, handleDb, accs, nextId, listening, exitCode>>

\* ... Model.findByIdAndDelete(id) resolves: 404 when it found nothing, else 200.
deleteRespond(p) ==
    /\ Running
    /\ task[p].pc = "getModelReturned"
    /\ task[p].kind = "delete"
    /\ task[p].id # MalformedId
    /\ LET k == collectionOf(task[p].model)
           found == byId(store[k], task[p].id)
       IN /\ store' = [store EXCEPT ![k] = @ \ found]
          /\ task' = [task EXCEPT ![p] =
                [@ EXCEPT !.pc = "done", !.status = IF found = {} THEN 404 ELSE 200,
                          !.sent = @ + 1]]
    /\ UNCHANGED <<connections, models, handleDb, accs, nextId, listening, exitCode>>

\* ... the id is no ObjectId: the query rejects with a CastError.
idCastError(p) ==
    /\ Running
    /\ task[p].pc = "getModelReturned"
    /\ task[p].kind \in {"delete", "update"}
    /\ task[p].id = MalformedId
    /\ catch(p, "CastError")
    /\ UNCHANGED <<connections, models, handleDb, accs, store, nextId, listening>>

\* PUT /update/:database/:collection/:id, up to await getModel.
update(p, d, c, id, upd) ==
    /\ CanArrive(p)
    /\ task' = [task EXCEPT ![p] =
          getModelCall([@ EXCEPT !.kind = "update", !.db = d, !.coll = c, !.id = id,
                                 !.body = [NoBody EXCEPT !.update = <<upd>>]])]
    /\ UNCHANGED <<connections, models, handleDb, accs, store, nextId, listening, exitCode>>

\* ... Model.findByIdAndUpdate(id, { $set: update }, { new: true, runValidators: true })
\* resolves: 404 when it found nothing, else 200 with the updated document.
updateRespond(p) ==
    /\ Running
    /\ task[p].pc = "getModelReturned"
    /\ task[p].kind = "update"
    /\ task[p].id # MalformedId
    /\ updateValidates(task[p].body.update[1])
    /\ LET k == collectionOf(task[p].model)
           found == byId(store[k], task[p].id)
           after == { setFields(x, task[p].body.update[1]) : x \in found }
       IN /\ store' = [store EXCEPT ![k] = (@ \ found) \cup after]
          /\ task' = [task EXCEPT ![p] =
                [@ EXCEPT !.pc = "done", !.status = IF found = {} THEN 404 ELSE 200,
                          !.sent = @ + 1,
                          !.out = IF found = {} THEN <<>> ELSE <<after>>]]
    /\ UNCHANGED <<connections, models, handleDb, accs, nextId, listening, exitCode>>

\* ... the update fails its validators: the query rejects before it is sent.
updateInvalid(p) ==
    /\ Running
    /\ task[p].pc = "getModelReturned"
    /\ task[p].kind = "update"
    /\ task[p].id # MalformedId
    /\ ~updateValidates(task[p].body.update[1])
    /\ catch(p, "ValidationError")
    /\ UNCHANGED <<connections, models, handleDb, accs, store, nextId, listening>>


\* An awaited database operation rejects.
dbReject(p) ==
    /\ Running
    /\ task[p].pc = "getModelReturned"
    /\ task[p].kind \in {"delete", "update"} => task[p].id # MalformedId
    /\ task[p].kind = "update" => updateValidates(task[p].body.update[1])
    /\ task[p].kind = "insert" => sendsOperation(task[p])
    /\ catch(p, "MongoError")
    /\ UNCHANGED <<connections, models, handleDb, accs, store, nextId, listening>>

\* ------------------------------------------------------------- specification

Init ==
    /\ connections = [d \in DbNames |-> undefined]
    /\ models = [k \in ModelKeys |-> undefined]
    /\ handleDb = <<>>
    /\ accs = <<>>
    /\ store = [t \in DbNames \X CollNames |-> {}]
    /\ nextId = 1
    /\ task = [p \in Procs |-> IF p = Startup THEN [IdleTask EXCEPT !.kind = "startup",
                                                      !.db = DefaultDb, !.coll = DefaultColl,
                                                      !.pc = "boot"]
                               ELSE IdleTask]
    /\ listening = FALSE
    /\ exitCode = <<>>

\* The database as the server finds it: the default collection is empty or
\* already holds a document.
InitHttp ==
    /\ connections = [d \in DbNames |-> undefined]
    /\ models = [k \in ModelKeys |-> undefined]
    /\ handleDb = <<>>
    /\ accs = <<>>
    /\ \E n \in 0..1 :
          /\ store = [t \in DbNames \X CollNames |->
                        IF t = <<DefaultDb, DefaultColl>>
                        THEN { newDocument(Milk, i) : i \in 1..n } ELSE {}]
          /\ nextId = n + 1
    /\ task = [p \in Procs |-> IF p = Startup THEN [IdleTask EXCEPT !.kind = "startup",
                                                      !.db = DefaultDb, !.coll = DefaultColl,
                                                      !.pc = "boot"]
                               ELSE IdleTask]
    /\ listening = FALSE
    /\ exitCode = <<>>

Next ==
    \/ startServer
    \/ startServerGotConnection
    \/ startServerListen
    \/ \E p \in Procs :
          \/ createConnectionResolve(p)
          \/ createConnectionReject(p)
          \/ getModelBind(p)
          \/ dbReject(p)
    \/ \E p \in HttpRequests :
          \/ \E t \in HttpTargets :
                \/ find(p, t[1], t[2])
                \/ \E body \in InsertBodies : insert(p, t[1], t[2], body)
                \/ \E id \in RequestIds :
                      \/ delete(p, t[1], t[2], id)
                      \/ \E upd \in Updates : update(p, t[1], t[2], id, upd)
          \/ findRespond(p)
          \/ insertOne(p)
          \/ insertMany(p)
          \/ insertInvalid(p)
          \/ insertBadRequest(p)
          \/ deleteRespond(p)
          \/ updateRespond(p)
          \/ updateInvalid(p)
          \/ idCastError(p)

Spec == InitHttp /\ [][Next]_vars

NextCache ==
    \/ startServer
    \/ startServerGotConnection
    \/ startServerListen
    \/ \E p \in Procs :
          \/ createConnectionResolve(p)
          \/ createConnectionReject(p)
          \/ getModelBind(p)
          \/ getModelBindThrows(p)
          \/ dbReject(p)
    \/ \E p \in Requests :
          \/ \E t \in CacheTargets : find(p, t[1], t[2])
          \/ findRespond(p)

SpecCache == Init /\ [][NextCache]_vars
\* -------------------------------------------------------------------- claims

\* p's step is a call of getConnection (from startServer or from getModel).
GetConnectionCalled(p) ==
    /\ task[p].pc # "createConnection"
    /\ task'[p].pc \in {"createConnection", "getConnectionReturned"}
    /\ task[p].pc # task'[p].pc \/ task[p].caller # task'[p].caller

\* p's step is a step of its request.
Steps(p) == task'[p] # task[p]

BadBody(body) == body.document = <<>> /\ body.documentsKind # "array"

\* C1: getConnection(d) calls that are in flight at the same time (q was
\* awaiting its open for d when p's open for d resolved) all return the same
\* connection handle.
C1_ConcurrentCallsShareHandle ==
    \A p \in Procs : \A q \in task[p].peers :
        task[q].conn # undefined => task[q].conn = task[p].conn

\* C2: in every reachable state at most one connection has been opened for
\* each database name.
C2_OneConnectionPerDatabase ==
    \A d \in DbNames : Cardinality({ h \in Handles : handleDb[h] = d }) <= 1

\* C3: getModel(d, c) calls that are in flight at the same time (q was inside
\* getModel(d, c) when p bound its accessor) return the same accessor, and at
\* most one accessor is ever created for a pair (d, c).
C3_ConcurrentCallsShareAccessor ==
    /\ \A p \in Procs : \A q \in task[p].modelPeers :
          task[q].model # undefined => task[q].model = task[p].model
    /\ \A a, b \in Accessors :
          (collectionOf(a) = collectionOf(b)) => a = b

\* C4: once getModel(d, c1) and getModel(d, c2), c1 # c2, have both returned,
\* the two accessors are distinct and bound to the same connection handle.
C4_SiblingAccessorsShareConnection ==
    \A p, q \in Procs :
        ( /\ task[p].model # undefined
          /\ task[q].model # undefined
          /\ task[p].db = task[q].db
          /\ task[p].coll # task[q].coll )
        => /\ task[p].model # task[q].model
           /\ accs[task[p].model].conn = accs[task[q].model].conn

\* C5: when the open inside getConnection(d) fails, the failure reaches the
\* caller's catch block (500, or exit 1 at startup), the step writes nothing
\* to the Connection Registry, and a getConnection(d) call that finds no
\* entry for d opens a connection afresh.
C5_FailedOpenNotCached ==
    [][ \A p \in Procs :
          /\ (task[p].pc = "createConnection" /\ task'[p].pc = "done")
             => /\ task'[p].error = "ConnectionError"
                /\ connections' = connections
                /\ handleDb' = handleDb
                /\ IF p = Startup THEN exitCode' = <<1>> ELSE task'[p].status = 500
          /\ (GetConnectionCalled(p) /\ lookup(connections, task'[p].db) = undefined)
             => /\ task'[p].pc = "createConnection"
                /\ connections' = connections ]_vars

\* A getConnection(d) call made after an open for d failed is opening a
\* connection, the registry still having no entry for d.
C5_Witness ==
    \E p \in Procs :
        /\ task[p].afterFailure
        /\ task[p].pc = "createConnection"
        /\ connections[task[p].db] = undefined

\* C6: a getConnection(d) call that starts when the registry holds a handle
\* for d opens nothing, changes neither registry and returns that handle.
C6_HitOpensNothing ==
    [][ \A p \in Procs :
          (GetConnectionCalled(p) /\ connections[task'[p].db] \in Handles)
          => /\ task'[p].pc = "getConnectionReturned"
             /\ task'[p].conn = connections[task'[p].db]
             /\ handleDb' = handleDb
             /\ connections' = connections
             /\ models' = models ]_vars

\* Two requests hold the same handle from getConnection: one of them opened
\* it, the other found it cached and has just had it returned.
C6_Witness ==
    \E p, q \in Requests :
        /\ p # q
        /\ task[q].pc = "getConnectionReturned"
        /\ task[q].conn \in Handles
        /\ task[p].conn = task[q].conn
        /\ task[p].pc = "done"

\* C7: the server listens only after the startup connection to BigBoxStore
\* and the count on GroceryInventory have both succeeded; when startServer
\* fails the process has exited with status 1 and is not listening.
C7_ListenOnlyAfterStartup ==
    /\ listening =>
          /\ task[Startup].conn \in Handles
          /\ handleDb[task[Startup].conn] = DefaultDb
          /\ task[Startup].model \in Accessors
          /\ collectionOf(task[Startup].model) = <<DefaultDb, DefaultColl>>
          /\ task[Startup].out # <<>>
          /\ task[Startup].error = ""
    /\ task[Startup].error # "" => exitCode = <<1>>
    /\ exitCode # <<>> => ~listening

C7_Witness == listening /\ task[Startup].out # <<>>

\* C8: an insert whose document fails validation is answered with 400.
C8_InvalidDocumentIs400 ==
    \A p \in Requests :
        ( /\ task[p].kind = "insert"
          /\ task[p].pc = "done"
          /\ task[p].model # undefined
          /\ task[p].body.document # <<>>
          /\ ~validates(task[p].body.document[1]) )
        => task[p].status = 400

\* C9 as claimed: an insert whose body has neither `document` nor an array
\* `documents` is answered with 400.
C9_BadBodyIs400 ==
    \A p \in Requests :
        (task[p].kind = "insert" /\ task[p].pc = "done" /\ BadBody(task[p].body))
        => task[p].status = 400

\* C9 amended: such an insert is answered with 400 when its getModel call
\* succeeded and with 500 when getModel failed, and no step of it changes
\* the stored documents.
C9_BadBodyIs400AfterGetModel ==
    [][ \A p \in Requests :
          (Steps(p) /\ task'[p].kind = "insert" /\ BadBody(task'[p].body))
          => /\ store' = store
             /\ nextId' = nextId
             /\ task'[p].pc = "done" =>
                   /\ task'[p].status \in {400, 500}
                   /\ task'[p].status = 400 <=> task'[p].model # undefined ]_vars

C9_Witness ==
    \E p \in Requests :
        /\ task[p].kind = "insert"
        /\ BadBody(task[p].body)
        /\ task[p].status = 400

\* The id of p's request matches no stored document.
NoMatch(p) == \A k \in DOMAIN store : byId(store[k], task'[p].id) = {}

\* C10 as claimed: a delete of a well-formed id that matches no stored
\* document is answered with 404 and changes neither the stored documents nor
\* the registries.
C10_MissingDeleteChangesNothing ==
    [][ \A p \in Requests :
          (Steps(p) /\ task'[p].kind = "delete" /\ task'[p].id # MalformedId /\ NoMatch(p))
          => /\ store' = store
             /\ connections' = connections
             /\ models' = models
             /\ task'[p].pc = "done" => task'[p].status = 404 ]_vars

\* C10 amended: such a delete never changes the stored documents; it is
\* answered with 404 when getModel and the lookup succeed and with 500 when
\* one of them fails; it leaves both registries unchanged when the accessor
\* for (d, c) was cached when the request arrived (on a miss its getModel
\* call writes the registries).
C10_MissingDeleteKeepsDocuments ==
    [][ \A p \in Requests :
          (Steps(p) /\ task'[p].kind = "delete" /\ task'[p].id # MalformedId /\ NoMatch(p))
          => /\ store' = store
             /\ task'[p].caller # "getModel" =>
                   (connections' = connections /\ models' = models /\ handleDb' = handleDb)
             /\ task'[p].pc = "done" =>
                   /\ task'[p].status \in {404, 500}
                   /\ task'[p].status = 404 <=> task'[p].error = "" ]_vars

C10_Witness ==
    \E p \in Requests :
        /\ task[p].kind = "delete"
        /\ task[p].status = 404
        /\ task[p].caller # "getModel"
        /\ store[<<task[p].db, task[p].coll>>] # {}
\* p's step answers its update request with 200.
UpdateSucceeds(p) ==
    /\ task[p].kind = "update"
    /\ task[p].pc # "done"
    /\ task'[p].pc = "done"
    /\ task'[p].status = 200

\* The step replaces document x of collection k by a document that has the
\* paths `fields` set as `value` says and everything else as x has it,
\* changes no other document, and p's response carries the new document.
MergesInto(p, k, x, fields, value(_)) ==
    LET y == CHOOSE z \in store'[k] : z["_id"] = x["_id"] IN
    /\ \E z \in store'[k] : z["_id"] = x["_id"]
    /\ DOMAIN y = DOMAIN x \cup fields
    /\ \A f \in fields : y[f] = value(f)
    /\ \A f \in DOMAIN x \ fields : y[f] = x[f]
    /\ store' = [store EXCEPT ![k] = (@ \ {x}) \cup {y}]
    /\ task'[p].out = <<{y}>>

\* C11 as claimed: a successful update sets exactly the fields present in
\* `update` to the given values, leaves the document's other fields and all
\* other documents unchanged, and returns the updated document.
C11_UpdateSetsGivenFields ==
    [][ \A p \in Requests :
          UpdateSucceeds(p) =>
              LET k == <<task[p].db, task[p].coll>>
                  upd == task[p].body.update[1]
                  given(f) == upd[f]
              IN  /\ Cardinality(byId(store[k], task[p].id)) = 1
                  /\ \A x \in byId(store[k], task[p].id) :
                        MergesInto(p, k, x, DOMAIN upd, given) ]_vars

\* C11 amended: a successful update sets exactly the fields of `update` that
\* the schema defines, each to the given value as the schema casts it (item
\* is trimmed); fields the schema does not define are ignored; the
\* document's other fields and all other documents are unchanged, and the
\* response carries the updated document.
C11_UpdateSetsSchemaFields ==
    [][ \A p \in Requests :
          UpdateSucceeds(p) =>
              LET k == <<task[p].db, task[p].coll>>
                  upd == task[p].body.update[1]
                  asCast(f) == castValue(f, upd[f])
              IN  /\ Cardinality(byId(store[k], task[p].id)) = 1
                  /\ \A x \in byId(store[k], task[p].id) :
                        MergesInto(p, k, x, DOMAIN upd \cap SchemaPaths, asCast) ]_vars

\* An update answered with 200 whose collection holds a second document.
C11_Witness ==
    \E p \in Requests :
        /\ task[p].kind = "update"
        /\ task[p].status = 200
        /\ task[p].out # <<>>
        /\ Cardinality(store[<<task[p].db, task[p].coll>>]) >= 2
\* p's step answers its single-document insert with 201.
InsertOneSucceeds(p) ==
    /\ task[p].kind = "insert"
    /\ task[p].body.document # <<>>
    /\ task[p].pc # "done"
    /\ task'[p].pc = "done"
    /\ task'[p].status = 201

\* p's step answers its find with 200.
FindSucceeds(p) ==
    /\ task[p].kind = "find"
    /\ task[p].pc # "done"
    /\ task'[p].pc = "done"
    /\ task'[p].status = 200

\* The step adds exactly one document, with the id the response carries, to
\* collection k and changes nothing else in the database.
AddsOne(p, k, n) ==
    /\ n \notin store[k]
    /\ byId(store[k], task'[p].out[1]) = {}
    /\ n["_id"] = <<"id", task'[p].out[1]>>
    /\ store' = [store EXCEPT ![k] = @ \cup {n}]

\* C12 as claimed: a single-document insert answered with 201 adds to (d, c)
\* exactly one document, carrying the inserted fields and the returned id,
\* and a find on (d, c) returns the documents (d, c) then holds.
C12_FindReturnsInsertedFields ==
    [][ \A p \in Requests :
          /\ InsertOneSucceeds(p) =>
                LET k == <<task[p].db, task[p].coll>>
                    doc == task[p].body.document[1]
                IN  \E n \in store'[k] :
                        /\ AddsOne(p, k, n)
                        /\ DOMAIN doc \subseteq DOMAIN n
                        /\ \A f \in DOMAIN doc : n[f] = doc[f]
          /\ FindSucceeds(p) =>
                task'[p].out = <<store[<<task[p].db, task[p].coll>>]>> ]_vars

\* C12 amended: the new document carries the inserted fields that the schema
\* defines, each as the schema casts it (item is trimmed), plus the returned
\* _id and __v; inserted fields the schema does not define are not stored.
C12_FindReturnsCastFields ==
    [][ \A p \in Requests :
          /\ InsertOneSucceeds(p) =>
                LET k == <<task[p].db, task[p].coll>>
                    doc == task[p].body.document[1]
                IN  \E n \in store'[k] :
                        /\ AddsOne(p, k, n)
                        /\ DOMAIN n = (DOMAIN doc \cap SchemaPaths) \cup {"_id", "__v"}
                        /\ \A f \in DOMAIN doc \cap SchemaPaths : n[f] = castValue(f, doc[f])
          /\ FindSucceeds(p) =>
                task'[p].out = <<store[<<task[p].db, task[p].coll>>]>> ]_vars

\* A find answered after a single-document insert into the same (d, c):
\* its result holds the document with the id the insert returned, next to
\* the document the collection held before.
C12_Witness ==
    \E p, q \in Requests :
        /\ task[p].kind = "insert"
        /\ task[p].body.document # <<>>
        /\ task[p].status = 201
        /\ task[q].kind = "find"
        /\ task[q].status = 200
        /\ task[q].db = task[p].db
        /\ task[q].coll = task[p].coll
        /\ byId(task[q].out[1], task[p].out[1]) # {}
        /\ Cardinality(task[q].out[1]) = 2
\* C13: a registry entry, once written, is never replaced by a different
\* value.
C13_EntriesWrittenOnce ==
    [][ /\ \A d \in DbNames :
              connections[d] # undefined => connections'[d] = connections[d]
        /\ \A k \in ModelKeys :
              models[k] # undefined => models'[k] = models[k] ]_vars

\* C14: whenever the Model Registry holds an accessor for (d, c), the
\* Connection Registry holds a handle for d: every cached accessor is bound
\* to a connection to a database that has a cached handle.
C14_ConnectionBeforeAccessor ==
    /\ \A k \in ModelKeys :
          models[k] # undefined =>
              /\ models[k] \in Accessors
              /\ accs[models[k]].conn \in Handles
              /\ connections[collectionOf(models[k])[1]] \in Handles
    /\ \A d \in DbNames : \A c \in CollNames :
          ( /\ models[modelKey(d, c)] \in Accessors
            /\ collectionOf(models[modelKey(d, c)]) = <<d, c>> )
          => /\ connections[d] \in Handles
             /\ handleDb[connections[d]] = d

\* The Model Registry holds an accessor of a database other than the
\* startup one.
C14_Witness ==
    \E d \in DbNames \ {DefaultDb} : \E c \in CollNames :
        /\ models[modelKey(d, c)] \in Accessors
        /\ collectionOf(models[modelKey(d, c)]) = <<d, c>>

\* C15: every value getConnection(d) has returned is a connection handle
\* that an earlier open for d created.
C15_ReturnsOpenedHandle ==
    \A p \in Procs :
        task[p].conn # undefined =>
            /\ task[p].conn \in Handles
            /\ handleDb[task[p].conn] = task[p].db

\* p's step is the failure of its getModel call on a miss.
GetModelFails(p) ==
    /\ task[p].caller = "getModel"
    /\ task[p].pc \in {"createConnection", "getConnectionReturned"}
    /\ task'[p].pc = "done"

\* C16: a getModel(d, c) call that fails on a miss (in the open or in the
\* bind) ends in its caller's catch block and writes nothing to the Model
\* Registry; when the open failed it writes nothing to the Connection
\* Registry either, and it has written nothing before.
C16_FailedGetModelLeavesNothing ==
    [][ \A p \in Procs :
          GetModelFails(p) =>
              /\ task'[p].error \in {"ConnectionError", "TypeError"}
              /\ IF p = Startup THEN exitCode' = <<1>> ELSE task'[p].status = 500
              /\ task'[p].model = undefined
              /\ models' = models
              /\ accs' = accs
              /\ \A k \in ModelKeys :
                    models[k] # undefined => models[k] \in Accessors
              /\ task[p].pc = "createConnection" =>
                    /\ task'[p].conn = undefined
                    /\ connections' = connections
                    /\ handleDb' = handleDb ]_vars

\* One getModel call has failed in its open and one in its bind; neither
\* registry has an entry for what they asked for.
C16_Witness ==
    \E p, q \in Requests :
        /\ task[p].error = "ConnectionError"
        /\ task[q].error = "TypeError"
        /\ models[modelKey(task[p].db, task[p].coll)] = undefined
        /\ models[modelKey(task[q].db, task[q].coll)] = undefined
        /\ connections[task[p].db] = undefined
\* The handler of request p returns on this step.
Responds(p) == task[p].pc # "done" /\ task'[p].pc = "done"

\* Some step of the handler of request p can be taken.
Continues(p) ==
    \/ createConnectionResolve(p)
    \/ createConnectionReject(p)
    \/ getModelBind(p)
    \/ dbReject(p)
    \/ findRespond(p)
    \/ insertOne(p)
    \/ insertMany(p)
    \/ insertInvalid(p)
    \/ insertBadRequest(p)
    \/ deleteRespond(p)
    \/ updateRespond(p)
    \/ updateInvalid(p)
    \/ idCastError(p)

\* The status of a handler that returns without a throw, from the request
\* and the collection as the handler's operation found it.
statusOf(t) ==
    CASE t.kind = "find" -> 200
      [] t.kind = "insert" -> IF BadBody(t.body) THEN 400 ELSE 201
      [] OTHER -> IF byId(store[<<t.db, t.coll>>], t.id) = {} THEN 404 ELSE 200

\* C17: every request to the four routes gets exactly one response on every
\* path: no handler that has started is ever stuck, a handler has sent one
\* response when it has returned and none before, and the status is 500 when
\* getModel or the storage operation threw (a malformed id and a document or
\* update that fails validation are such throws), and otherwise 400 for an
\* insert body lacking both fields, 404 for a delete or update whose id
\* matches no document, 201 for an insert, 200 for a find, delete or update.
C17_OneResponsePerRequest ==
    [][ \A p \in HttpRequests :
          /\ task[p].pc \notin {"idle", "done"} => ENABLED Continues(p)
          /\ task'[p].sent = (IF task'[p].pc = "done" THEN 1 ELSE 0)
          /\ Responds(p) =>
                /\ task'[p].status = (IF task'[p].error # "" THEN 500 ELSE statusOf(task[p]))
                /\ task[p].kind \in {"delete", "update"} /\ task[p].model # undefined
                      /\ task[p].id = MalformedId => task'[p].error # ""
                /\ task[p].kind = "insert" /\ task[p].model # undefined
                      /\ ~BadBody(task[p].body) /\ ~sendsOperation(task[p])
                      => task'[p].error # ""
                /\ task[p].model = undefined => task'[p].error # "" ]_vars

\* Both requests have been answered, one with 404 and one from the catch block.
C17_Witness ==
    \E p, q \in HttpRequests :
        /\ task[p].pc = "done" /\ task[p].status = 404 /\ task[p].sent = 1
        /\ task[q].pc = "done" /\ task[q].status = 500 /\ task[q].sent = 1
        /\ task[q].error = "MongoError"

\* C18: two different (database, collection) pairs never share a Model
\* Registry entry: getModel returns different accessors for them, each bound
\* to the database and collection it was asked for.
C18_KeyIsInjective ==
    \A p, q \in Procs :
        ( /\ task[p].model # undefined
          /\ task[q].model # undefined
          /\ <<task[p].db, task[p].coll>> # <<task[q].db, task[q].coll>> )
        => /\ task[p].model # task[q].model
           /\ collectionOf(task[p].model) = <<task[p].db, task[p].coll>>
           /\ collectionOf(task[q].model) = <<task[q].db, task[q].coll>>
====
